---- MODULE Spec2Model ----
(***************************************************************************)
(* UVC gadget: the control state machine of lib/uvc.c (probe/commit        *)
(* negotiation, event dispatch), the static test source, and the stream    *)
(* orchestrator it drives.                                                 *)
(*                                                                         *)
(* 32-bit unsigned values are held as their bit patterns read as two's     *)
(* complement, so UINT_MAX is -1 and every value fits a 32-bit integer;    *)
(* ULess/ULessEq compare two such patterns as the unsigned numbers they    *)
(* stand for.                                                              *)
(***************************************************************************)
EXTENDS Integers, Sequences, FiniteSets, TLC

VARIABLES
    fc,         \* dev->fc: the function configuration (immutable after startup)
    probe,      \* dev->probe
    commit,     \* dev->commit
    control,    \* dev->control (pending_control): 0, PROBE or COMMIT
    fcc,        \* dev->fcc
    width,      \* dev->width
    height,     \* dev->height
    stream,     \* dev->stream: the stream orchestrator
    src,        \* the static test source
    event,      \* v4l2_event of the handler invocation that has just ended,
                \* NoEvent between invocations
    resp,       \* resp of that invocation
    sent,       \* TRUE iff that invocation issued UVCIOC_SEND_RESPONSE
    calls,      \* the calls that invocation made on the stream, in order
    args,       \* the arguments that invocation passed to uvc_stream_set_format
                \* and to uvc_stream_set_frame_rate, one entry per call
    main,       \* main(): its position, the outcome of each constructor, the
                \* calls made so far and the exit code
    fillargs,   \* the arguments of uvc_fill_streaming_control when the
                \* function is exercised on its own, and the number of times
                \* it was applied to each target
    frame_count, \* the static test source's global frame counter
    buf,        \* the video buffer the test source filled last: the words
                \* written, by byte address, and bytesused
    pending     \* the driver's queue of UVC events not yet dequeued, oldest
                \* first

vars == <<fc, probe, commit, control, fcc, width, height, stream, src,
          event, resp, sent, calls, args, main, fillargs, frame_count, buf,
          pending>>

-----------------------------------------------------------------------------
(* Program constants *)

UVC_RC_UNDEFINED == 0
UVC_SET_CUR == 1
UVC_GET_CUR == 129
UVC_GET_MIN == 130
UVC_GET_MAX == 131
UVC_GET_RES == 132
UVC_GET_LEN == 133
UVC_GET_INFO == 134
UVC_GET_DEF == 135

UVC_VS_PROBE_CONTROL == 1
UVC_VS_COMMIT_CONTROL == 2

USB_TYPE_MASK == 96
USB_TYPE_STANDARD == 0
USB_TYPE_CLASS == 32
USB_RECIP_MASK == 31
USB_RECIP_INTERFACE == 1

UVC_EVENT_CONNECT == 134217728
UVC_EVENT_DISCONNECT == 134217729
UVC_EVENT_STREAMON == 134217730
UVC_EVENT_STREAMOFF == 134217731
UVC_EVENT_SETUP == 134217732
UVC_EVENT_DATA == 134217733

EL2HLT == 51
UINT_MAX == -1

V4L2_PIX_FMT_YUYV == 1448695129
V4L2_PIX_FMT_MJPEG == 1196444237

\* sizeof(struct uvc_streaming_control) and sizeof resp.data
CtrlSize == 34
DataSize == 60

-----------------------------------------------------------------------------
(* Integer helpers *)

RECURSIVE BitAnd(_, _)
BitAnd(a, b) ==
    IF a = 0 \/ b = 0 THEN 0
    ELSE (a % 2) * (b % 2) + 2 * BitAnd(a \div 2, b \div 2)

U8(x) == x % 256

\* a < b and a <= b of two 32-bit patterns read as unsigned numbers
ULess(a, b) == IF (a < 0) = (b < 0) THEN a < b ELSE b < 0
ULessEq(a, b) == a = b \/ ULess(a, b)

\* byte k (0 = least significant) of a 16- or 32-bit pattern
ByteOf(x, k) ==
    CASE k = 0 -> x % 256
      [] k = 1 -> (x \div 256) % 256
      [] k = 2 -> (x \div 65536) % 256
      [] k = 3 -> (x \div 16777216) % 256

\* the 32-bit pattern of four little-endian bytes
Le32(b0, b1, b2, b3) ==
    b0 + 256 * b1 + 65536 * b2 + 16777216 * (IF b3 >= 128 THEN b3 - 256 ELSE b3)

Le16(b0, b1) == b0 + 256 * b1

-----------------------------------------------------------------------------
(* The function configuration *)

Frame(w, h, ivals) == [width |-> w, height |-> h, intervals |-> ivals]
Format(f, frs) == [fcc |-> f, frames |-> frs]

\* the interval list the gadget setup script writes for every frame
ScriptIntervals == <<166666, 200000, 333333, 500000>>

\* an interval list in the order a device reports it, not ascending
ListedIntervals == <<333333, 666666, 100000, 50000000>>

\* one YUYV format of two frames, as the setup script declares them
ConfigScript ==
    [control_intf |-> 0, streaming_intf |-> 1, wMaxPacketSize |-> 2048,
     formats |-> << Format(V4L2_PIX_FMT_YUYV,
                           << Frame(640, 360, ScriptIntervals),
                              Frame(1280, 720, ScriptIntervals) >>) >>]

\* a YUYV and an MJPEG format whose interval lists are not ascending
ConfigListed ==
    [control_intf |-> 0, streaming_intf |-> 1, wMaxPacketSize |-> 1024,
     formats |-> << Format(V4L2_PIX_FMT_YUYV,
                           << Frame(640, 480, ListedIntervals) >>),
                    Format(V4L2_PIX_FMT_MJPEG,
                           << Frame(1280, 720, <<333333, 500000>>),
                              Frame(1920, 1080, <<1000000, 500000>>) >>) >>]

Configs == {ConfigScript, ConfigListed}

num_formats(cfg) == Len(cfg.formats)

-----------------------------------------------------------------------------
(* struct uvc_streaming_control and its 34-byte little-endian layout *)

ZeroCtrl ==
    [bmHint |-> 0, bFormatIndex |-> 0, bFrameIndex |-> 0, dwFrameInterval |-> 0,
     wKeyFrameRate |-> 0, wPFrameRate |-> 0, wCompQuality |-> 0,
     wCompWindowSize |-> 0, wDelay |-> 0, dwMaxVideoFrameSize |-> 0,
     dwMaxPayloadTransferSize |-> 0, dwClockFrequency |-> 0,
     bmFramingInfo |-> 0, bPreferedVersion |-> 0, bMinVersion |-> 0,
     bMaxVersion |-> 0]

\* the bytes of the structure in memory (and on the wire)
CtrlBytes(c) ==
    << ByteOf(c.bmHint, 0), ByteOf(c.bmHint, 1),
       c.bFormatIndex, c.bFrameIndex,
       ByteOf(c.dwFrameInterval, 0), ByteOf(c.dwFrameInterval, 1),
       ByteOf(c.dwFrameInterval, 2), ByteOf(c.dwFrameInterval, 3),
       ByteOf(c.wKeyFrameRate, 0), ByteOf(c.wKeyFrameRate, 1),
       ByteOf(c.wPFrameRate, 0), ByteOf(c.wPFrameRate, 1),
       ByteOf(c.wCompQuality, 0), ByteOf(c.wCompQuality, 1),
       ByteOf(c.wCompWindowSize, 0), ByteOf(c.wCompWindowSize, 1),
       ByteOf(c.wDelay, 0), ByteOf(c.wDelay, 1),
       ByteOf(c.dwMaxVideoFrameSize, 0), ByteOf(c.dwMaxVideoFrameSize, 1),
       ByteOf(c.dwMaxVideoFrameSize, 2), ByteOf(c.dwMaxVideoFrameSize, 3),
       ByteOf(c.dwMaxPayloadTransferSize, 0), ByteOf(c.dwMaxPayloadTransferSize, 1),
       ByteOf(c.dwMaxPayloadTransferSize, 2), ByteOf(c.dwMaxPayloadTransferSize, 3),
       ByteOf(c.dwClockFrequency, 0), ByteOf(c.dwClockFrequency, 1),
       ByteOf(c.dwClockFrequency, 2), ByteOf(c.dwClockFrequency, 3),
       c.bmFramingInfo, c.bPreferedVersion, c.bMinVersion, c.bMaxVersion >>

\* the structure read through a pointer cast onto a byte buffer
CtrlOfBytes(b) ==
    [bmHint |-> Le16(b[1], b[2]), bFormatIndex |-> b[3], bFrameIndex |-> b[4],
     dwFrameInterval |-> Le32(b[5], b[6], b[7], b[8]),
     wKeyFrameRate |-> Le16(b[9], b[10]), wPFrameRate |-> Le16(b[11], b[12]),
     wCompQuality |-> Le16(b[13], b[14]), wCompWindowSize |-> Le16(b[15], b[16]),
     wDelay |-> Le16(b[17], b[18]),
     dwMaxVideoFrameSize |-> Le32(b[19], b[20], b[21], b[22]),
     dwMaxPayloadTransferSize |-> Le32(b[23], b[24], b[25], b[26]),
     dwClockFrequency |-> Le32(b[27], b[28], b[29], b[30]),
     bmFramingInfo |-> b[31], bPreferedVersion |-> b[32], bMinVersion |-> b[33],
     bMaxVersion |-> b[34]]

ZeroData == [i \in 1..DataSize |-> 0]

\* a structure written through (struct uvc_streaming_control *)&resp->data
WriteCtrl(data, c) ==
    CtrlBytes(c) \o SubSeq(data, CtrlSize + 1, DataSize)

-----------------------------------------------------------------------------
(* uvc_fill_streaming_control *)

\* clamp on the int, without the cast to unsigned int
clamp_Signed(val, lo, hi) ==
    LET v1 == IF val < lo THEN lo ELSE val
    IN  IF hi < v1 THEN hi ELSE v1

clamp(val, lo, hi) ==
    LET v1 == IF ULess(val, lo) THEN lo ELSE val
    IN  IF ULess(hi, v1) THEN hi ELSE v1

\* SelectInterval without the fallback after the loop
SelectInterval_NoFallback(intervals, ival) ==
    LET n == Len(intervals)
        hits == {i \in 1..n : ULessEq(ival, intervals[i])}
    IN  IF hits # {}
        THEN intervals[CHOOSE i \in hits : \A j \in hits : i <= j]
        ELSE ival

\* the loop over frame->intervals and the fallback after it
SelectInterval(intervals, ival) ==
    LET n == Len(intervals)
        hits == {i \in 1..n : ULessEq(ival, intervals[i])}
    IN  IF hits # {}
        THEN intervals[CHOOSE i \in hits : \A j \in hits : i <= j]
        ELSE intervals[n]

\* a 32-bit pattern from its unsigned 16-bit halves
Pattern32(hi, lo) == lo + 65536 * (IF hi >= 32768 THEN hi - 65536 ELSE hi)

\* a * b in unsigned int, for operands below 2^16 (wWidth and wHeight are
\* 16-bit descriptor fields)
UMul(a, b) ==
    LET low == (a % 256) * (b % 256)
        mid == (a \div 256) * (b % 256) + (a % 256) * (b \div 256)
        t == low + (mid % 256) * 256
    IN  Pattern32(((a \div 256) * (b \div 256) + mid \div 256 + t \div 65536)
                      % 65536,
                  t % 65536)

\* x * 2 in unsigned int, x a 32-bit pattern
UDouble(x) ==
    LET l2 == (x % 65536) * 2
    IN  Pattern32((((x \div 65536) % 65536) * 2 + l2 \div 65536) % 65536,
                  l2 % 65536)

\* MaxVideoFrameSize with the YUYV case only
MaxVideoFrameSize_YuyvOnly(format, frame, cur) ==
    IF format.fcc = V4L2_PIX_FMT_YUYV
    THEN UDouble(UMul(frame.width, frame.height))
    ELSE cur

\* the switch on format->fcc: frame->width * frame->height * 2 in unsigned
\* int for YUYV and MJPEG; any other format leaves the field as it is
MaxVideoFrameSize(format, frame, cur) ==
    IF format.fcc \in {V4L2_PIX_FMT_YUYV, V4L2_PIX_FMT_MJPEG}
    THEN UDouble(UMul(frame.width, frame.height))
    ELSE cur

\* uvc_fill_streaming_control without the memset of the target
uvc_fill_streaming_control_NoMemset(cfg, ctrl, iformat, iframe, ival) ==
    LET ifmt == clamp(iformat, 1, num_formats(cfg))
        format == cfg.formats[ifmt]
        ifrm == clamp(iframe, 1, Len(format.frames))
        frame == format.frames[ifrm]
    IN  [ctrl EXCEPT
            !.bmHint = 1,
            !.bFormatIndex = U8(ifmt),
            !.bFrameIndex = U8(ifrm),
            !.dwFrameInterval = SelectInterval(frame.intervals, ival),
            !.dwMaxVideoFrameSize = MaxVideoFrameSize(format, frame, @),
            !.dwMaxPayloadTransferSize = cfg.wMaxPacketSize,
            !.bmFramingInfo = 3,
            !.bPreferedVersion = 1,
            !.bMaxVersion = 1]

\* ctrl is the content of the target before the call; memset(ctrl, 0, ...)
\* replaces it by ZeroCtrl before the fields are set
uvc_fill_streaming_control(cfg, ctrl, iformat, iframe, ival) ==
    LET ifmt == clamp(iformat, 1, num_formats(cfg))
        format == cfg.formats[ifmt]
        ifrm == clamp(iframe, 1, Len(format.frames))
        frame == format.frames[ifrm]
    IN  [ZeroCtrl EXCEPT
            !.bmHint = 1,
            !.bFormatIndex = U8(ifmt),
            !.bFrameIndex = U8(ifrm),
            !.dwFrameInterval = SelectInterval(frame.intervals, ival),
            !.dwMaxVideoFrameSize = MaxVideoFrameSize(format, frame, @),
            !.dwMaxPayloadTransferSize = cfg.wMaxPacketSize,
            !.bmFramingInfo = 3,
            !.bPreferedVersion = 1,
            !.bMaxVersion = 1]

-----------------------------------------------------------------------------
(* The static test source *)

EINVAL == 22

InitSrc == [width |-> 0, height |-> 0, pixelformat |-> 0]

\* the fields are stored before the pixel format is checked
test_source_set_format(s, fmt) ==
    [src |-> [width |-> fmt.width, height |-> fmt.height,
              pixelformat |-> fmt.pixelformat],
     ret |-> IF fmt.pixelformat # V4L2_PIX_FMT_YUYV THEN -EINVAL ELSE 0]

WHITE == -2131001109     \* 0x80eb80eb
GRAY == -2139127937      \* 0x807F7F7F

\* a video buffer nothing was written to
NoBuffer == [mem |-> <<>>, bytesused |-> 0]

\* the byte addresses the two loops write a 32-bit word to
WordAddresses(s) ==
    {i * (s.width * 2) + j : i \in 0..(s.height - 1),
                             j \in {k \in 0..(s.width * 2 - 1) : k % 4 = 0}}

\* test_source_fill_buffer with the squares not scrolling
test_source_fill_buffer_Still(s, count) ==
    LET bpl == s.width * 2
        square_size == 32
        horizontal_offset == 0
        color(i, j) ==
            LET x == j \div 2
                shifted_x == (x + horizontal_offset) % s.width
            IN  IF ((i \div square_size) + (shifted_x \div square_size)) % 2 = 0
                THEN WHITE ELSE GRAY
    IN  [mem |-> [a \in WordAddresses(s) |-> color(a \div bpl, a % bpl)],
         bytesused |-> bpl * s.height]

\* the buffer after the fill, for the frame counter count (a 32-bit pattern:
\* 2^32 is a multiple of 64, so the pattern modulo 64 is the unsigned value
\* modulo 64); widths are even, so every line is a whole number of words
test_source_fill_buffer(s, count) ==
    LET bpl == s.width * 2
        square_size == 32
        horizontal_offset == count % (square_size * 2)
        color(i, j) ==
            LET x == j \div 2
                shifted_x == (x + horizontal_offset) % s.width
            IN  IF ((i \div square_size) + (shifted_x \div square_size)) % 2 = 0
                THEN WHITE ELSE GRAY
    IN  [mem |-> [a \in WordAddresses(s) |-> color(a \div bpl, a % bpl)],
         bytesused |-> bpl * s.height]

\* frame_count++ in unsigned int
NextCount(count) == IF count = 2147483647 THEN -2147483647 - 1 ELSE count + 1

-----------------------------------------------------------------------------
(* The stream orchestrator: Idle, Configured, Streaming *)

InitStream ==
    [state |-> "Idle", width |-> 0, height |-> 0, fcc |-> 0, fps |-> 0]

\* uvc_stream_set_format that reconfigures a running stream without stopping it
uvc_stream_set_format_NoStop(st, s, pixfmt) ==
    LET r == test_source_set_format(s, pixfmt)
    IN  [stream |-> IF r.ret = 0
                    THEN [st EXCEPT !.state = IF st.state = "Idle"
                                              THEN "Configured" ELSE st.state,
                                    !.width = pixfmt.width,
                                    !.height = pixfmt.height,
                                    !.fcc = pixfmt.pixelformat]
                    ELSE st,
         src |-> r.src,
         calls |-> <<"sink_set_format", "source_set_format">>]

\* apply_format: stop a running stream, then push the format to the sink and
\* the source; a format the source rejects leaves the previous one in place
uvc_stream_set_format(st, s, pixfmt) ==
    LET running == st.state = "Streaming"
        st1 == IF running THEN [st EXCEPT !.state = "Configured"] ELSE st
        r == test_source_set_format(s, pixfmt)
    IN  [stream |-> IF r.ret = 0
                    THEN [st1 EXCEPT !.state = "Configured",
                                     !.width = pixfmt.width,
                                     !.height = pixfmt.height,
                                     !.fcc = pixfmt.pixelformat]
                    ELSE st1,
         src |-> r.src,
         calls |-> (IF running THEN <<"stream_off">> ELSE <<>>)
                   \o <<"sink_set_format", "source_set_format">>]

\* set_fps: the rate is handed to the source
uvc_stream_set_frame_rate(st, fps) == [st EXCEPT !.fps = fps]

\* enable(true) starts a configured stream and is refused while Idle;
\* enable(false) stops a running stream
uvc_stream_enable(st, enable) ==
    IF enable = 1
    THEN IF st.state = "Configured" THEN [st EXCEPT !.state = "Streaming"] ELSE st
    ELSE IF st.state = "Streaming" THEN [st EXCEPT !.state = "Configured"] ELSE st

-----------------------------------------------------------------------------
(* UVC events as VIDIOC_DQEVENT returns them *)

NoReq == [bRequestType |-> 0, bRequest |-> 0, wValue |-> 0, wIndex |-> 0,
          wLength |-> 0]
NoData == [length |-> 0, data |-> ZeroData]
NoEvent == [type |-> 0, req |-> NoReq, data |-> NoData]

PlainEvent(t) == [type |-> t, req |-> NoReq, data |-> NoData]

SetupEvent(rt, rq, wv, wi, wl) ==
    [type |-> UVC_EVENT_SETUP,
     req |-> [bRequestType |-> rt, bRequest |-> rq, wValue |-> wv, wIndex |-> wi,
              wLength |-> wl],
     data |-> NoData]

\* the data phase of a SET_CUR: the host's 34-byte block
DataEvent(ifmt, ifrm, ival) ==
    [type |-> UVC_EVENT_DATA, req |-> NoReq,
     data |-> [length |-> CtrlSize,
               data |-> WriteCtrl(ZeroData,
                          [ZeroCtrl EXCEPT !.bFormatIndex = ifmt,
                                           !.bFrameIndex = ifrm,
                                           !.dwFrameInterval = ival])]]

\* Bounds of the event alphabet
MaxSelector == 3
MaxIndex == 3

Requests == {UVC_RC_UNDEFINED, UVC_SET_CUR, UVC_GET_CUR, UVC_GET_MIN, UVC_GET_MAX,
             UVC_GET_RES, UVC_GET_LEN, UVC_GET_INFO, UVC_GET_DEF}
Selectors == 1..MaxSelector
DataIntervals == {0, 250000, 600000, UINT_MAX}

\* bmRequestType of a class request to an interface: host-to-device for
\* SET_CUR (0x21), device-to-host for the others (0xa1)
ClassInterface(rq) == IF rq = UVC_SET_CUR THEN 33 ELSE 161

\* standard/interface, class/endpoint and vendor/interface request types
OtherRequestTypes == {1, 34, 65}

SetupEvents ==
    \* class requests to the streaming interface (interface 1)
    {SetupEvent(ClassInterface(rq), rq, cs * 256, 1, CtrlSize) :
        rq \in Requests, cs \in Selectors}
    \* class requests to the control interface (entity 2, interface 0)
    \cup {SetupEvent(ClassInterface(rq), rq, 512, 512, wl) :
        rq \in {UVC_SET_CUR, UVC_GET_CUR}, wl \in {2, 290}}
    \* class requests to an interface the function does not own
    \cup {SetupEvent(ClassInterface(rq), rq, 256, 2, CtrlSize) :
        rq \in {UVC_SET_CUR, UVC_GET_CUR}}
    \* requests that are not class requests to an interface
    \cup {SetupEvent(rt, rq, 256, 1, CtrlSize) :
        rt \in OtherRequestTypes, rq \in {UVC_SET_CUR, UVC_GET_CUR}}

DataEvents ==
    {DataEvent(f, r, i) : f \in 0..MaxIndex, r \in 0..MaxIndex, i \in DataIntervals}

Events ==
    SetupEvents \cup DataEvents
    \cup {PlainEvent(t) : t \in {UVC_EVENT_CONNECT, UVC_EVENT_DISCONNECT,
                                 UVC_EVENT_STREAMON, UVC_EVENT_STREAMOFF}}

-----------------------------------------------------------------------------
(* Request processing *)

\* memset(&resp, 0, sizeof resp); resp.length = -EL2HLT
SentinelResp == [length |-> -EL2HLT, data |-> ZeroData]

\* what a request handler leaves of the device and the response: the pending
\* control ctl, the probe and commit blocks, the response r
Out(ctl, r) == [control |-> ctl, probe |-> probe, commit |-> commit, resp |-> r]

uvc_events_process_standard(ctl, r) == Out(ctl, r)

uvc_events_process_control(req, cs, len, r) ==
    [r EXCEPT !.data[1] = 3, !.length = len]

\* GetCur answering every selector with the probe block
GetCur_AlwaysProbe(cs, ctl, r) ==
    Out(ctl, [r EXCEPT !.data = WriteCtrl(@, probe)])

\* case UVC_GET_CUR: memcpy of the probe or the commit block
GetCur(cs, ctl, r) ==
    Out(ctl, [r EXCEPT !.data =
                WriteCtrl(@, IF cs = UVC_VS_PROBE_CONTROL THEN probe ELSE commit)])

\* GetMinMaxDef with the fill going to dev->probe as well
GetMinMaxDef_IntoProbe(req, ctl, r) ==
    LET ctrl == CtrlOfBytes(r.data)
        c == IF req = UVC_GET_MAX
             THEN uvc_fill_streaming_control(fc, ctrl, -1, -1, UINT_MAX)
             ELSE uvc_fill_streaming_control(fc, ctrl, 1, 1, 0)
    IN  [Out(ctl, [r EXCEPT !.data = WriteCtrl(@, c)]) EXCEPT !.probe = c]

\* case UVC_GET_MIN, UVC_GET_MAX, UVC_GET_DEF: the fill goes to the response
GetMinMaxDef(req, ctl, r) ==
    LET ctrl == CtrlOfBytes(r.data)
    IN  Out(ctl, [r EXCEPT !.data =
                WriteCtrl(@, IF req = UVC_GET_MAX
                             THEN uvc_fill_streaming_control(fc, ctrl, -1, -1,
                                                             UINT_MAX)
                             ELSE uvc_fill_streaming_control(fc, ctrl, 1, 1, 0))])

\* case UVC_GET_LEN
GetLen(ctl, r) ==
    Out(ctl, [r EXCEPT !.data[1] = 0, !.data[2] = 34, !.length = 2])

\* the switch on req, reached with a PROBE or COMMIT selector
StreamingRequest(req, cs, ctl, r) ==
    CASE req = UVC_SET_CUR -> Out(cs, [r EXCEPT !.length = 34])
      [] req = UVC_GET_CUR -> GetCur(cs, ctl, r)
      [] req \in {UVC_GET_MIN, UVC_GET_MAX, UVC_GET_DEF} -> GetMinMaxDef(req, ctl, r)
      [] req = UVC_GET_RES -> Out(ctl, [r EXCEPT !.data = WriteCtrl(@, ZeroCtrl)])
      [] req = UVC_GET_LEN -> GetLen(ctl, r)
      [] req = UVC_GET_INFO -> Out(ctl, [r EXCEPT !.data[1] = 3, !.length = 1])
      [] OTHER -> Out(ctl, r)

\* uvc_events_process_streaming without the test of the selector
uvc_events_process_streaming_AnySelector(req, cs, ctl, r) ==
    StreamingRequest(req, cs, ctl, [r EXCEPT !.length = CtrlSize])

uvc_events_process_streaming(req, cs, ctl, r) ==
    IF cs # UVC_VS_PROBE_CONTROL /\ cs # UVC_VS_COMMIT_CONTROL
    THEN Out(ctl, r)
    ELSE StreamingRequest(req, cs, ctl, [r EXCEPT !.length = CtrlSize])

uvc_events_process_class(ctrl, ctl, r) ==
    LET interface == BitAnd(ctrl.wIndex, 255)
    IN  IF BitAnd(ctrl.bRequestType, USB_RECIP_MASK) # USB_RECIP_INTERFACE
        THEN Out(ctl, r)
        ELSE IF interface = fc.control_intf
        THEN Out(ctl, uvc_events_process_control(ctrl.bRequest,
                          U8(ctrl.wValue \div 256), U8(ctrl.wLength), r))
        ELSE IF interface = fc.streaming_intf
        THEN uvc_events_process_streaming(ctrl.bRequest,
                 U8(ctrl.wValue \div 256), ctl, r)
        ELSE Out(ctl, r)

\* uvc_events_process_setup without the reset of dev->control
uvc_events_process_setup_NoReset(ctrl, r) ==
    LET type == BitAnd(ctrl.bRequestType, USB_TYPE_MASK)
    IN  CASE type = USB_TYPE_STANDARD -> uvc_events_process_standard(control, r)
          [] type = USB_TYPE_CLASS -> uvc_events_process_class(ctrl, control, r)
          [] OTHER -> Out(control, r)

\* dev->control = 0, then the switch on the request type
uvc_events_process_setup(ctrl, r) ==
    LET type == BitAnd(ctrl.bRequestType, USB_TYPE_MASK)
    IN  CASE type = USB_TYPE_STANDARD -> uvc_events_process_standard(0, r)
          [] type = USB_TYPE_CLASS -> uvc_events_process_class(ctrl, 0, r)
          [] OTHER -> Out(0, r)

-----------------------------------------------------------------------------
(* The data phase *)

V4L2_FIELD_NONE == 1

\* fps = 1.0 / (dwFrameInterval / 10000000.0), converted to unsigned int.
\* For the intervals of Configs (all in 1..2^31-1) the double computation
\* gives the integer quotient.
Fps(interval) == 10000000 \div interval

\* no call on the stream
NoArgs == [set_format |-> <<>>, set_frame_rate |-> <<>>]

\* CommitFormat taking the format and the frame from the probe block
CommitFormat_FromProbe(target) ==
    LET format == fc.formats[probe.bFormatIndex]
        frame == format.frames[probe.bFrameIndex]
        pixfmt == [width |-> frame.width, height |-> frame.height,
                   pixelformat |-> format.fcc, field |-> V4L2_FIELD_NONE,
                   sizeimage |-> IF format.fcc = V4L2_PIX_FMT_MJPEG
                                 THEN target.dwMaxVideoFrameSize ELSE 0]
        set == uvc_stream_set_format(stream, src, pixfmt)
        fps == Fps(target.dwFrameInterval)
    IN  [fcc |-> format.fcc, width |-> frame.width, height |-> frame.height,
         stream |-> uvc_stream_set_frame_rate(set.stream, fps),
         src |-> set.src,
         calls |-> <<"uvc_stream_set_format">> \o set.calls
                   \o <<"uvc_stream_set_frame_rate">>,
         args |-> [set_format |-> <<pixfmt>>, set_frame_rate |-> <<fps>>]]

\* the block under "if (dev->control == UVC_VS_COMMIT_CONTROL)"
CommitFormat(target) ==
    LET format == fc.formats[target.bFormatIndex]
        frame == format.frames[target.bFrameIndex]
        pixfmt == [width |-> frame.width, height |-> frame.height,
                   pixelformat |-> format.fcc, field |-> V4L2_FIELD_NONE,
                   sizeimage |-> IF format.fcc = V4L2_PIX_FMT_MJPEG
                                 THEN target.dwMaxVideoFrameSize ELSE 0]
        set == uvc_stream_set_format(stream, src, pixfmt)
        fps == Fps(target.dwFrameInterval)
    IN  [fcc |-> format.fcc, width |-> frame.width, height |-> frame.height,
         stream |-> uvc_stream_set_frame_rate(set.stream, fps),
         src |-> set.src,
         calls |-> <<"uvc_stream_set_format">> \o set.calls
                   \o <<"uvc_stream_set_frame_rate">>,
         args |-> [set_format |-> <<pixfmt>>, set_frame_rate |-> <<fps>>]]

\* what a data phase leaves alone
DataKeep ==
    [probe |-> probe, commit |-> commit, control |-> control, fcc |-> fcc,
     width |-> width, height |-> height, stream |-> stream, src |-> src,
     calls |-> <<>>, args |-> NoArgs]

\* TargetOf with the default case falling into the probe case
TargetOf_DefaultProbe(ctl) ==
    CASE ctl = UVC_VS_COMMIT_CONTROL -> "commit"
      [] OTHER -> "probe"

\* switch (dev->control): the block the data phase is for
TargetOf(ctl) ==
    CASE ctl = UVC_VS_PROBE_CONTROL -> "probe"
      [] ctl = UVC_VS_COMMIT_CONTROL -> "commit"
      [] OTHER -> "none"

\* target = &dev->probe or &dev->commit: the content of the target
PendingTarget == IF control = UVC_VS_COMMIT_CONTROL THEN commit ELSE probe

\* DataTarget with the frame and format indexes passed in each other's place
DataTarget_Swapped(ctrl) ==
    uvc_fill_streaming_control(fc, PendingTarget, ctrl.bFrameIndex,
                               ctrl.bFormatIndex, ctrl.dwFrameInterval)

\* DataTarget passing the host's indexes as zero-based ones
DataTarget_ZeroBased(ctrl) ==
    uvc_fill_streaming_control(fc, PendingTarget, ctrl.bFormatIndex - 1,
                               ctrl.bFrameIndex - 1, ctrl.dwFrameInterval)

\* the fill applied to the target, with the three values the host's block
\* carries
DataTarget(ctrl) ==
    uvc_fill_streaming_control(fc, PendingTarget, ctrl.bFormatIndex,
                               ctrl.bFrameIndex, ctrl.dwFrameInterval)

\* uvc_events_process_data without the test for the COMMIT control before the
\* format is applied
uvc_events_process_data_AlwaysApply(data) ==
    LET which == TargetOf(control)
        target == DataTarget(CtrlOfBytes(data.data))
        filled == CASE which = "probe" -> [DataKeep EXCEPT !.probe = target]
                    [] which = "commit" -> [DataKeep EXCEPT !.commit = target]
                    [] OTHER -> DataKeep
    IN  IF which # "none"
        THEN LET c == CommitFormat(target)
             IN  [filled EXCEPT !.fcc = c.fcc, !.width = c.width,
                     !.height = c.height, !.stream = c.stream, !.src = c.src,
                     !.calls = c.calls, !.args = c.args]
        ELSE filled

uvc_events_process_data(data) ==
    LET which == TargetOf(control)
        target == DataTarget(CtrlOfBytes(data.data))
        filled == CASE which = "probe" -> [DataKeep EXCEPT !.probe = target]
                    [] which = "commit" -> [DataKeep EXCEPT !.commit = target]
                    [] OTHER -> DataKeep
    IN  IF which # "none" /\ control = UVC_VS_COMMIT_CONTROL
        THEN LET c == CommitFormat(target)
             IN  [filled EXCEPT !.fcc = c.fcc, !.width = c.width,
                     !.height = c.height, !.stream = c.stream, !.src = c.src,
                     !.calls = c.calls, !.args = c.args]
        ELSE filled

-----------------------------------------------------------------------------
(* uvc_events_process: one invocation of the handler, by the kind of the    *)
(* event VIDIOC_DQEVENT returned                                           *)

\* VIDIOC_DQEVENT taking the newest event of the queue
VIDIOC_DQEVENT_Newest(q) ==
    [event |-> q[Len(q)], rest |-> SubSeq(q, 1, Len(q) - 1)]

\* VIDIOC_DQEVENT: the oldest event leaves the queue
VIDIOC_DQEVENT(q) == [event |-> Head(q), rest |-> Tail(q)]

\* the handler's VIDIOC_DQEVENT returns e: the oldest event of the queue, or,
\* with nothing queued, the event that arrives as the handler is invoked
Dq(e) ==
    /\ pending # <<>> => e = VIDIOC_DQEVENT(pending).event
    /\ pending' = IF pending = <<>> THEN <<>> ELSE VIDIOC_DQEVENT(pending).rest

EventConnect(e) ==
    /\ event = NoEvent
    /\ Dq(e)
    /\ e.type \in {UVC_EVENT_CONNECT, UVC_EVENT_DISCONNECT}
    /\ event' = e
    /\ resp' = SentinelResp
    /\ sent' = FALSE
    /\ calls' = <<>>
    /\ args' = NoArgs
    /\ UNCHANGED <<fc, probe, commit, control, fcc, width, height, stream, src,
                   main, fillargs, frame_count,
                   buf>>

\* EventSetup issuing UVCIOC_SEND_RESPONSE only for a response that was
\* populated
EventSetup_SendIfPopulated(e) ==
    /\ event = NoEvent
    /\ Dq(e)
    /\ e.type = UVC_EVENT_SETUP
    /\ event' = e
    /\ LET out == uvc_events_process_setup(e.req, SentinelResp)
       IN  /\ control' = out.control
           /\ probe' = out.probe
           /\ commit' = out.commit
           /\ resp' = out.resp
    /\ sent' = (resp'.length # -EL2HLT)
    /\ calls' = <<>>
    /\ args' = NoArgs
    /\ UNCHANGED <<fc, fcc, width, height, stream, src, main, fillargs, frame_count,
                   buf>>

EventSetup(e) ==
    /\ event = NoEvent
    /\ Dq(e)
    /\ e.type = UVC_EVENT_SETUP
    /\ event' = e
    /\ LET out == uvc_events_process_setup(e.req, SentinelResp)
       IN  /\ control' = out.control
           /\ probe' = out.probe
           /\ commit' = out.commit
           /\ resp' = out.resp
    /\ sent' = TRUE
    /\ calls' = <<>>
    /\ args' = NoArgs
    /\ UNCHANGED <<fc, fcc, width, height, stream, src, main, fillargs, frame_count,
                   buf>>

EventData(e) ==
    /\ event = NoEvent
    /\ Dq(e)
    /\ e.type = UVC_EVENT_DATA
    /\ event' = e
    /\ LET out == uvc_events_process_data(e.data)
       IN  /\ probe' = out.probe
           /\ commit' = out.commit
           /\ control' = out.control
           /\ fcc' = out.fcc
           /\ width' = out.width
           /\ height' = out.height
           /\ stream' = out.stream
           /\ src' = out.src
           /\ calls' = out.calls
           /\ args' = out.args
    /\ resp' = SentinelResp
    /\ sent' = FALSE
    /\ UNCHANGED <<fc, main, fillargs, frame_count,
                   buf>>

EventStreamOn(e) ==
    /\ event = NoEvent
    /\ Dq(e)
    /\ e.type = UVC_EVENT_STREAMON
    /\ event' = e
    /\ stream' = uvc_stream_enable(stream, 1)
    /\ calls' = <<"uvc_stream_enable">>
    /\ resp' = SentinelResp
    /\ sent' = FALSE
    /\ args' = NoArgs
    /\ UNCHANGED <<fc, probe, commit, control, fcc, width, height, src, main,
                   fillargs, frame_count,
                   buf>>

EventStreamOff(e) ==
    /\ event = NoEvent
    /\ Dq(e)
    /\ e.type = UVC_EVENT_STREAMOFF
    /\ event' = e
    /\ stream' = uvc_stream_enable(stream, 0)
    /\ calls' = <<"uvc_stream_enable">>
    /\ resp' = SentinelResp
    /\ sent' = FALSE
    /\ args' = NoArgs
    /\ UNCHANGED <<fc, probe, commit, control, fcc, width, height, src, main,
                   fillargs, frame_count,
                   buf>>

\* the handler returns to the event loop: v4l2_event and resp, its locals,
\* are gone, and the handler can be invoked for the next event
HandlerReturn ==
    /\ event # NoEvent
    /\ event' = NoEvent
    /\ resp' = SentinelResp
    /\ sent' = FALSE
    /\ calls' = <<>>
    /\ args' = NoArgs
    /\ UNCHANGED <<fc, probe, commit, control, fcc, width, height, stream, src,
                   main, fillargs, frame_count,
                   buf, pending>>

\* ret < 0 from VIDIOC_DQEVENT: v4l2_event was not filled
DqFailed == [type |-> -1, req |-> NoReq, data |-> NoData]

\* EventDqFail falling through to UVCIOC_SEND_RESPONSE instead of returning
EventDqFail_FallsThrough ==
    /\ event = NoEvent
    /\ event' = DqFailed
    /\ resp' = SentinelResp
    /\ sent' = TRUE
    /\ calls' = <<>>
    /\ args' = NoArgs
    /\ UNCHANGED <<fc, probe, commit, control, fcc, width, height, stream, src,
                   main, fillargs, frame_count, buf, pending>>

\* the handler is invoked and VIDIOC_DQEVENT fails: it returns at once,
\* before resp is set up
EventDqFail ==
    /\ event = NoEvent
    /\ event' = DqFailed
    /\ sent' = FALSE
    /\ calls' = <<>>
    /\ args' = NoArgs
    /\ UNCHANGED <<fc, probe, commit, control, fcc, width, height, stream, src,
                   resp, main, fillargs, frame_count, buf,
                   pending>>

uvc_events_process(e) ==
    \/ EventConnect(e)
    \/ EventSetup(e)
    \/ EventData(e)
    \/ EventStreamOn(e)
    \/ EventStreamOff(e)

-----------------------------------------------------------------------------
(* main(): the position in the function, what getopt and the constructors  *)
(* return in this run, the calls made so far and the exit code              *)

MainCalls == <<"configfs_parse_uvc_function", "events_init",
               "test_video_source_create", "uvc_stream_new",
               "uvc_stream_init_uvc", "events_loop">>

\* main inside events_loop, where the handler is invoked
MainInLoop ==
    [pc |-> "in_loop", opt |-> "none", fc |-> TRUE, src |-> TRUE,
     stream |-> TRUE, trace |-> MainCalls, exited |-> FALSE, ret |-> 0]

\* the calls after the label done
Cleanup == <<"uvc_stream_delete", "video_source_destroy", "events_cleanup",
             "configfs_free_uvc_function">>

\* uvc_fill_streaming_control is not exercised on its own
NoFill ==
    [iformat |-> 0, iframe |-> 0, ival |-> 0, prior |-> <<ZeroCtrl, ZeroCtrl>>,
     probe |-> 0, commit |-> 0]

-----------------------------------------------------------------------------
(* uvc_open, uvc_set_config, uvc_events_init *)

Init ==
    /\ fc \in Configs
    /\ probe = uvc_fill_streaming_control(fc, ZeroCtrl, 1, 1, 0)
    /\ commit = uvc_fill_streaming_control(fc, ZeroCtrl, 1, 1, 0)
    /\ control = 0
    /\ fcc = 0
    /\ width = 0
    /\ height = 0
    /\ stream = InitStream
    /\ src = InitSrc
    /\ event = NoEvent
    /\ resp = SentinelResp
    /\ sent = FALSE
    /\ calls = <<>>
    /\ args = NoArgs
    /\ main = MainInLoop
    /\ fillargs = NoFill
    /\ frame_count = 0
    /\ buf = NoBuffer
    /\ pending = <<>>

\* the handler is invoked for each event as it arrives, so that no event
\* waits in the queue
Next ==
    \/ \E e \in Events : uvc_events_process(e)
    \/ EventDqFail
    \/ HandlerReturn

Spec == Init /\ [][Next]_vars

-----------------------------------------------------------------------------
(* The handler with events waiting in the driver's queue: the host's       *)
(* events are queued, and each invocation of the handler issues one        *)
(* VIDIOC_DQEVENT                                                          *)

MaxPending == 2

\* the events the host sends: a SET_CUR for each selector, a data phase, a
\* GET_CUR, and the plain events
QueueEvents ==
    {SetupEvent(ClassInterface(UVC_SET_CUR), UVC_SET_CUR, cs * 256, 1, CtrlSize) :
        cs \in {UVC_VS_PROBE_CONTROL, UVC_VS_COMMIT_CONTROL}}
    \cup {SetupEvent(ClassInterface(UVC_GET_CUR), UVC_GET_CUR,
                     UVC_VS_PROBE_CONTROL * 256, 1, CtrlSize)}
    \cup {DataEvent(1, 2, 250000)}
    \cup {PlainEvent(t) : t \in {UVC_EVENT_CONNECT, UVC_EVENT_STREAMON,
                                 UVC_EVENT_STREAMOFF}}

\* the driver queues an event of the host
HostSends(e) ==
    /\ Len(pending) < MaxPending
    /\ pending' = Append(pending, e)
    /\ UNCHANGED <<fc, probe, commit, control, fcc, width, height, stream, src,
                   event, resp, sent, calls, args, main, fillargs, frame_count,
                   buf>>

\* the handler is invoked for the oldest queued event or, with nothing
\* queued, for an event as it arrives
NextQueue ==
    \/ \E e \in QueueEvents : HostSends(e)
    \/ \E e \in QueueEvents : uvc_events_process(e)
    \/ EventDqFail
    \/ HandlerReturn

SpecQueue == Init /\ [][NextQueue]_vars

-----------------------------------------------------------------------------
(* main(): one action per statement that can end or redirect the function  *)

\* what getopt returns: -h, an option that is not known, or no option
Options == {"h", "invalid", "none"}

\* the start of main on a gadget whose function has one of the
\* configurations: nothing is constructed, the device structure is not yet
\* allocated
InitMain ==
    /\ fc \in Configs
    /\ \E o \in Options, p, s, t \in BOOLEAN :
          main = [pc |-> "getopt", opt |-> o, fc |-> p, src |-> s, stream |-> t,
                  trace |-> <<>>, exited |-> FALSE, ret |-> 0]
    /\ probe = ZeroCtrl
    /\ commit = ZeroCtrl
    /\ control = 0
    /\ fcc = 0
    /\ width = 0
    /\ height = 0
    /\ stream = InitStream
    /\ src = InitSrc
    /\ event = NoEvent
    /\ resp = SentinelResp
    /\ sent = FALSE
    /\ calls = <<>>
    /\ args = NoArgs
    /\ fillargs = NoFill
    /\ frame_count = 0
    /\ buf = NoBuffer
    /\ pending = <<>>

\* what main leaves alone outside uvc_stream_init_uvc
MainKeep ==
    UNCHANGED <<fc, probe, commit, control, fcc, width, height, stream, src,
                event, resp, sent, calls, args, fillargs, frame_count,
                   buf, pending>>

\* main reaches a return statement with the value r
Return(m, r) == [m EXCEPT !.pc = "exit", !.exited = TRUE, !.ret = r]

\* main calls f and goes on at the statement next
Call(m, f, next) == [m EXCEPT !.trace = Append(@, f), !.pc = next]

\* while ((opt = getopt(argc, argv, "h")) != -1)
MainGetopt ==
    /\ main.pc = "getopt"
    /\ main' = CASE main.opt = "h" -> Return(main, 0)
                 [] main.opt = "invalid" -> Return(main, 1)
                 [] OTHER -> [main EXCEPT !.pc = "configfs_parse_uvc_function"]
    /\ MainKeep

\* fc = configfs_parse_uvc_function(function); if (!fc) return 1
MainParse ==
    /\ main.pc = "configfs_parse_uvc_function"
    /\ main' = LET m == Call(main, "configfs_parse_uvc_function", "events_init")
               IN  IF main.fc THEN m ELSE Return(m, 1)
    /\ MainKeep

\* events_init(&events); signal(SIGINT, sigint_handler)
MainEventsInit ==
    /\ main.pc = "events_init"
    /\ main' = Call(main, "events_init", "test_video_source_create")
    /\ MainKeep

\* MainCreateSource leaving ret at 0 when the source is not created
MainCreateSource_NoRet ==
    /\ main.pc = "test_video_source_create"
    /\ main' = LET m == Call(main, "test_video_source_create", "uvc_stream_new")
               IN  IF main.src THEN m ELSE [m EXCEPT !.pc = "done"]
    /\ MainKeep

\* src = test_video_source_create(); if (src == NULL) { ret = 1; goto done; }
MainCreateSource ==
    /\ main.pc = "test_video_source_create"
    /\ main' = LET m == Call(main, "test_video_source_create", "uvc_stream_new")
               IN  IF main.src THEN m ELSE [m EXCEPT !.pc = "done", !.ret = 1]
    /\ MainKeep

\* stream = uvc_stream_new(fc->video); if (stream == NULL) { ret = 1; goto done; }
MainStreamNew ==
    /\ main.pc = "uvc_stream_new"
    /\ main' = LET m == Call(main, "uvc_stream_new", "uvc_stream_init_uvc")
               IN  IF main.stream THEN m ELSE [m EXCEPT !.pc = "done", !.ret = 1]
    /\ MainKeep

\* uvc_stream_set_event_handler, uvc_stream_set_video_source,
\* uvc_stream_init_uvc: uvc_set_config and uvc_events_init fill the blocks
MainInitUvc ==
    /\ main.pc = "uvc_stream_init_uvc"
    /\ main' = Call(main, "uvc_stream_init_uvc", "events_loop")
    /\ probe' = uvc_fill_streaming_control(fc, probe, 1, 1, 0)
    /\ commit' = uvc_fill_streaming_control(fc, commit, 1, 1, 0)
    /\ UNCHANGED <<fc, control, fcc, width, height, stream, src, event, resp,
                   sent, calls, args, fillargs, frame_count,
                   buf, pending>>

\* events_loop(&events) is entered
MainEventsLoop ==
    /\ main.pc = "events_loop"
    /\ main' = Call(main, "events_loop", "in_loop")
    /\ MainKeep

\* sigint_handler: events_stop makes events_loop return
MainSigint ==
    /\ main.pc = "in_loop"
    /\ main' = [main EXCEPT !.pc = "done"]
    /\ MainKeep

\* done: the four cleanup calls, then return ret
MainDone ==
    /\ main.pc = "done"
    /\ main' = Return([main EXCEPT !.trace = @ \o Cleanup], main.ret)
    /\ MainKeep

NextMain ==
    \/ MainGetopt
    \/ MainParse
    \/ MainEventsInit
    \/ MainCreateSource
    \/ MainStreamNew
    \/ MainInitUvc
    \/ MainEventsLoop
    \/ MainSigint
    \/ MainDone

SpecMain == InitMain /\ [][NextMain]_vars

-----------------------------------------------------------------------------
(* The static test source on its own: set to a YUYV format, then asked for *)
(* one frame after the other                                               *)

MaxFrames == 130

\* the frames the source is set to: width x height
SourceFrames == {<<64, 34>>, <<80, 40>>, <<96, 33>>}

\* the counter at the start of the program, and shortly before it wraps
StartCounts == {0, -2}

InitSource ==
    /\ fc \in {ConfigScript}
    /\ probe = uvc_fill_streaming_control(fc, ZeroCtrl, 1, 1, 0)
    /\ commit = uvc_fill_streaming_control(fc, ZeroCtrl, 1, 1, 0)
    /\ control = 0
    /\ fcc = 0
    /\ width = 0
    /\ height = 0
    /\ stream = InitStream
    /\ \E f \in SourceFrames :
          src = test_source_set_format(InitSrc,
                    [width |-> f[1], height |-> f[2],
                     pixelformat |-> V4L2_PIX_FMT_YUYV]).src
    /\ event = NoEvent
    /\ resp = SentinelResp
    /\ sent = FALSE
    /\ calls = <<>>
    /\ args = NoArgs
    /\ main = MainInLoop
    /\ fillargs = NoFill
    /\ frame_count \in StartCounts
    /\ buf = NoBuffer
    /\ pending = <<>>

\* the stream asks the source for a frame
FillBuffer ==
    /\ frame_count < MaxFrames
    /\ buf' = test_source_fill_buffer(src, frame_count)
    /\ frame_count' = NextCount(frame_count)
    /\ UNCHANGED <<fc, probe, commit, control, fcc, width, height, stream, src,
                   event, resp, sent, calls, args, main, fillargs,
                   pending>>

NextSource == FillBuffer

SpecSource == InitSource /\ [][NextSource]_vars

-----------------------------------------------------------------------------
(* uvc_fill_streaming_control on its own: the function applied to the two  *)
(* targets dev->probe and dev->commit, with the same arguments, from any   *)
(* content of the targets                                                  *)

MaxFills == 2

\* a frame whose width * height * 2 passes 2^31
ConfigWide ==
    [control_intf |-> 0, streaming_intf |-> 1, wMaxPacketSize |-> 3072,
     formats |-> << Format(V4L2_PIX_FMT_MJPEG,
                           << Frame(1920, 1080, ScriptIntervals) >>),
                    Format(V4L2_PIX_FMT_YUYV,
                           << Frame(40000, 30000, <<333333>>) >>) >>]

FillConfigs == Configs \cup {ConfigWide}

\* a block with every field set, as a host may send it
HostBlock ==
    [bmHint |-> 1, bFormatIndex |-> 2, bFrameIndex |-> 3,
     dwFrameInterval |-> 400000, wKeyFrameRate |-> 5, wPFrameRate |-> 6,
     wCompQuality |-> 7, wCompWindowSize |-> 8, wDelay |-> 32,
     dwMaxVideoFrameSize |-> 614400, dwMaxPayloadTransferSize |-> 512,
     dwClockFrequency |-> 48000000, bmFramingInfo |-> 1, bPreferedVersion |-> 2,
     bMinVersion |-> 1, bMaxVersion |-> 4]

\* what a target may hold when the function is entered
PriorBlocks == {ZeroCtrl, HostBlock}

\* int iformat, int iframe: an index as a host sends it, or -1 as GET_MAX
\* passes it
FillIndexes == {-1} \cup 0..MaxIndex

InitFill ==
    /\ fc \in FillConfigs
    /\ probe \in PriorBlocks
    /\ commit \in PriorBlocks
    /\ \E f, r \in FillIndexes, i \in DataIntervals :
          fillargs = [iformat |-> f, iframe |-> r, ival |-> i,
                      prior |-> <<probe, commit>>, probe |-> 0, commit |-> 0]
    /\ control = 0
    /\ fcc = 0
    /\ width = 0
    /\ height = 0
    /\ stream = InitStream
    /\ src = InitSrc
    /\ event = NoEvent
    /\ resp = SentinelResp
    /\ sent = FALSE
    /\ calls = <<>>
    /\ args = NoArgs
    /\ main = MainInLoop
    /\ frame_count = 0
    /\ buf = NoBuffer
    /\ pending = <<>>

FillProbe ==
    /\ fillargs.probe < MaxFills
    /\ probe' = uvc_fill_streaming_control(fc, probe, fillargs.iformat,
                                           fillargs.iframe, fillargs.ival)
    /\ fillargs' = [fillargs EXCEPT !.probe = @ + 1]
    /\ UNCHANGED <<fc, commit, control, fcc, width, height, stream, src, event,
                   resp, sent, calls, args, main, frame_count,
                   buf, pending>>

FillCommit ==
    /\ fillargs.commit < MaxFills
    /\ commit' = uvc_fill_streaming_control(fc, commit, fillargs.iformat,
                                            fillargs.iframe, fillargs.ival)
    /\ fillargs' = [fillargs EXCEPT !.commit = @ + 1]
    /\ UNCHANGED <<fc, probe, control, fcc, width, height, stream, src, event,
                   resp, sent, calls, args, main, frame_count,
                   buf, pending>>

NextFill == FillProbe \/ FillCommit

SpecFill == InitFill /\ [][NextFill]_vars

-----------------------------------------------------------------------------
(* Vocabulary of the properties *)

Range(q) == {q[i] : i \in 1..Len(q)}

\* a precedes b in the sequence q
Precedes(q, a, b) ==
    \E i, j \in 1..Len(q) : i < j /\ q[i] = a /\ q[j] = b

\* x clamped into 1..n, for an index 0..255 as the host sends it
PlainClamp(x, n) == IF x < 1 THEN 1 ELSE IF x > n THEN n ELSE x

\* a class request (bits 6..5 = 01) whose recipient (bits 4..0) is an interface
IsClassInterface(rt) == (rt \div 32) % 4 = 1 /\ rt % 32 = 1

\* a class request to the streaming interface with selector PROBE or COMMIT
ToStreaming(r) ==
    /\ IsClassInterface(r.bRequestType)
    /\ r.wIndex % 256 = fc.streaming_intf
    /\ r.wIndex % 256 # fc.control_intf
    /\ r.wValue \div 256 \in {UVC_VS_PROBE_CONTROL, UVC_VS_COMMIT_CONTROL}

StreamingSetCur(r) == ToStreaming(r) /\ r.bRequest = UVC_SET_CUR

GetRequests == {UVC_GET_CUR, UVC_GET_MIN, UVC_GET_MAX, UVC_GET_RES, UVC_GET_LEN,
                UVC_GET_INFO, UVC_GET_DEF}

\* the block the pending control names
PendingBlock == IF control = UVC_VS_PROBE_CONTROL THEN probe ELSE commit

\* the three values the host's DATA block carries
Requested == CtrlOfBytes(event.data.data)

\* the three negotiated values of a block
Triple(c) == <<c.bFormatIndex, c.bFrameIndex, c.dwFrameInterval>>

StreamFormat(st) == <<st.width, st.height, st.fcc>>

-----------------------------------------------------------------------------
\* C1: after the DATA event of a SET_CUR with selector S has been processed,
\* the S block holds the requested format clamped into 1..num_formats, the
\* requested frame clamped into 1..num_frames of that format, and an interval
\* of that frame's list (one that is >= the request when the list has such an
\* entry); with the script's intervals, a request of (1, 2, 250000) gives
\* (1, 2, 333333).
C1_DataFillsBlock ==
    (event.type = UVC_EVENT_DATA
        /\ control \in {UVC_VS_PROBE_CONTROL, UVC_VS_COMMIT_CONTROL}) =>
    LET f == PlainClamp(Requested.bFormatIndex, Len(fc.formats))
        r == PlainClamp(Requested.bFrameIndex, Len(fc.formats[f].frames))
        list == Range(fc.formats[f].frames[r].intervals)
        want == Requested.dwFrameInterval
    IN  /\ PendingBlock.bFormatIndex = f
        /\ PendingBlock.bFrameIndex = r
        /\ PendingBlock.dwFrameInterval \in list
        /\ (\E x \in list : ULessEq(want, x)) =>
                ULessEq(want, PendingBlock.dwFrameInterval)
        /\ (fc = ConfigScript /\ Triple(Requested) = <<1, 2, 250000>>) =>
                Triple(PendingBlock) = <<1, 2, 333333>>

C1_Witness ==
    /\ event.type = UVC_EVENT_DATA
    /\ control = UVC_VS_PROBE_CONTROL
    /\ fc = ConfigScript
    /\ Triple(Requested) = <<1, 2, 250000>>
    /\ Triple(probe) = <<1, 2, 333333>>

\* C2: after any SETUP event the pending control is none, unless that event
\* was a SET_CUR to the streaming interface with selector PROBE or COMMIT.
C2_SetupClearsPending ==
    (event.type = UVC_EVENT_SETUP /\ ~StreamingSetCur(event.req)) => control = 0

C2_Witness ==
    /\ event.type = UVC_EVENT_SETUP
    /\ event.req.bRequest = UVC_GET_CUR
    /\ ToStreaming(event.req)
    /\ control = 0

\* C3: a DATA event processed while no control is pending changes neither the
\* probe block, the commit block, the recorded fcc/width/height nor the
\* stream, makes no call on the stream and sends no response.
C3_OutOfSequenceDataDropped ==
    [][(event'.type = UVC_EVENT_DATA /\ control = 0) =>
          /\ probe' = probe
          /\ commit' = commit
          /\ control' = control
          /\ <<fcc', width', height'>> = <<fcc, width, height>>
          /\ stream' = stream
          /\ src' = src
          /\ calls' = <<>>
          /\ sent' = FALSE]_vars

C3_Witness ==
    /\ event.type = UVC_EVENT_DATA
    /\ control = 0
    /\ Triple(Requested) = <<1, 2, 250000>>
    /\ Triple(probe) = Triple(uvc_fill_streaming_control(fc, ZeroCtrl, 1, 1, 0))
    /\ ~sent

\* C4 (as claimed): once a DATA event has been processed no control is
\* pending.
C4_DataConsumesPending ==
    event.type = UVC_EVENT_DATA => control = 0

C6_StopBeforeReconfigure ==
    [][(/\ stream.state = "Streaming"
        /\ \/ event'.type = UVC_EVENT_DATA /\ control = UVC_VS_COMMIT_CONTROL
           \/ StreamFormat(stream') # StreamFormat(stream)) =>
          /\ stream'.state # "Streaming"
          /\ Precedes(calls', "stream_off", "sink_set_format")
          /\ Precedes(calls', "sink_set_format", "source_set_format")]_vars

C6_Witness ==
    /\ event.type = UVC_EVENT_DATA
    /\ control = UVC_VS_COMMIT_CONTROL
    /\ Precedes(calls, "stream_off", "sink_set_format")
    /\ stream.state = "Configured"

\* the smallest listed interval >= want, or the largest listed one if none is
MinAtLeast(list, want) ==
    LET ge == {x \in list : want <= x}
    IN  IF ge # {}
        THEN CHOOSE x \in ge : \A y \in ge : x <= y
        ELSE CHOOSE x \in list : \A y \in list : y <= x

\* C7 (as claimed): the interval a data phase stores is the smallest interval
\* of the selected frame that is >= the requested one, or the largest one if
\* none is (requests of 0 .. 2^31-1).
C7_IntervalIsMinAtLeast ==
    (event.type = UVC_EVENT_DATA
        /\ control \in {UVC_VS_PROBE_CONTROL, UVC_VS_COMMIT_CONTROL}
        /\ Requested.dwFrameInterval >= 0) =>
    LET list == Range(fc.formats[PendingBlock.bFormatIndex]
                        .frames[PendingBlock.bFrameIndex].intervals)
    IN  PendingBlock.dwFrameInterval = MinAtLeast(list, Requested.dwFrameInterval)

\* C8 (as claimed): the response to GET_LEN on the streaming interface has
\* length 2 and its two bytes read as a little-endian 16-bit integer are 34.
C8_GetLenIs34 ==
    (event.type = UVC_EVENT_SETUP /\ ToStreaming(event.req)
        /\ event.req.bRequest = UVC_GET_LEN) =>
    /\ sent
    /\ resp.length = 2
    /\ Le16(resp.data[1], resp.data[2]) = 34

\* C9: the blocks start as (1, 1, intervals[0] of frame 1), no GET request
\* changes the probe or the commit block, and GET_CUR with selector S answers
\* with the 34 bytes of the S block.
C9_GetLeavesBlocks ==
    /\ Triple(probe) = <<1, 1, fc.formats[1].frames[1].intervals[1]>>
    /\ Triple(commit) = <<1, 1, fc.formats[1].frames[1].intervals[1]>>
    /\ [][(event'.type = UVC_EVENT_SETUP
            /\ event'.req.bRequest \in GetRequests) =>
          /\ probe' = probe
          /\ commit' = commit
          /\ (ToStreaming(event'.req) /\ event'.req.bRequest = UVC_GET_CUR) =>
                /\ sent'
                /\ resp'.length = CtrlSize
                /\ SubSeq(resp'.data, 1, CtrlSize) =
                      CtrlBytes(IF event'.req.wValue \div 256 = UVC_VS_PROBE_CONTROL
                                THEN probe ELSE commit)]_vars

C9_Witness ==
    /\ event.type = UVC_EVENT_SETUP
    /\ ToStreaming(event.req)
    /\ event.req.bRequest = UVC_GET_CUR
    /\ event.req.wValue \div 256 = UVC_VS_PROBE_CONTROL
    /\ Triple(CtrlOfBytes(resp.data)) = <<1, 1, fc.formats[1].frames[1].intervals[1]>>
    /\ fcc = 0

\* C10 (as claimed): the response to GET_MAX carries the last format, the last
\* frame of that format, the largest interval of that frame and
\* dwMaxVideoFrameSize = width * height * 2 of that frame.
C10_GetMaxIsLargest ==
    (event.type = UVC_EVENT_SETUP /\ ToStreaming(event.req)
        /\ event.req.bRequest = UVC_GET_MAX) =>
    LET got == CtrlOfBytes(resp.data)
        f == Len(fc.formats)
        r == Len(fc.formats[f].frames)
        frame == fc.formats[f].frames[r]
        list == Range(frame.intervals)
    IN  /\ got.bFormatIndex = f
        /\ got.bFrameIndex = r
        /\ got.dwFrameInterval = CHOOSE x \in list : \A y \in list : y <= x
        /\ got.dwMaxVideoFrameSize = frame.width * frame.height * 2

\* C11 (as claimed): the response to GET_MIN and to GET_DEF on PROBE or COMMIT
\* carries format 1, frame 1 and the smallest interval declared for frame 1 of
\* format 1.
C11_GetMinDefIsSmallest ==
    (event.type = UVC_EVENT_SETUP /\ ToStreaming(event.req)
        /\ event.req.bRequest \in {UVC_GET_MIN, UVC_GET_DEF}) =>
    LET got == CtrlOfBytes(resp.data)
        list == Range(fc.formats[1].frames[1].intervals)
    IN  /\ sent
        /\ resp.length = CtrlSize
        /\ got.bFormatIndex = 1
        /\ got.bFrameIndex = 1
        /\ got.dwFrameInterval = CHOOSE x \in list : \A y \in list : x <= y

\* C12: two applications of the fill with the same (iformat, iframe, ival)
\* and the same configuration give byte-identical 34-byte blocks, whatever
\* the two targets held before; applying it again to a filled target leaves
\* every byte as it is.
C12_FillIdempotent ==
    /\ []((fillargs.probe >= 1 /\ fillargs.commit >= 1) =>
            CtrlBytes(probe) = CtrlBytes(commit))
    /\ [][(fillargs.probe >= 1 /\ fillargs'.probe > fillargs.probe) =>
            CtrlBytes(probe') = CtrlBytes(probe)]_vars

C12_Witness ==
    /\ fillargs.probe = 2
    /\ fillargs.commit = 1
    /\ fillargs.prior = <<HostBlock, ZeroCtrl>>
    /\ fillargs.iformat = -1
    /\ CtrlBytes(probe) = CtrlBytes(commit)
    /\ Len(CtrlBytes(probe)) = CtrlSize

\* C13: for a fixed (iframe, ival), bFormatIndex does not decrease as the
\* requested iformat (taken as the unsigned value the clamp sees) increases:
\* it never exceeds num_formats and is num_formats for every request at or
\* above num_formats.
C13_ClampMonotone ==
    fillargs.probe >= 1 =>
    LET n == num_formats(fc)
        Index(b) == uvc_fill_streaming_control(fc, ZeroCtrl, b, fillargs.iframe,
                                               fillargs.ival).bFormatIndex
    IN  /\ probe.bFormatIndex \in 1..n
        /\ ULessEq(n, fillargs.iformat) => probe.bFormatIndex = n
        /\ \A b \in FillIndexes :
              /\ ULessEq(fillargs.iformat, b) => probe.bFormatIndex <= Index(b)
              /\ ULessEq(b, fillargs.iformat) => Index(b) <= probe.bFormatIndex

C13_Witness ==
    /\ fillargs.probe >= 1
    /\ num_formats(fc) = 2
    /\ fillargs.iformat = 3
    /\ probe.bFormatIndex = 2

\* the number of entries of q equal to a
Count(q, a) == Cardinality({i \in 1..Len(q) : q[i] = a})

\* C14: the step that processes a COMMIT data phase calls the stream's
\* set_format exactly once, with the width, height and FourCC of the frame the
\* resulting commit block selects, and after it set_frame_rate exactly once;
\* the step that processes a PROBE data phase makes neither call and leaves
\* the commit block and the recorded fcc, width and height as they were.
C14_CommitAppliesOnce ==
    [][/\ (event'.type = UVC_EVENT_DATA /\ control = UVC_VS_COMMIT_CONTROL) =>
            LET format == fc.formats[commit'.bFormatIndex]
                frame == format.frames[commit'.bFrameIndex]
            IN  /\ Count(calls', "uvc_stream_set_format") = 1
                /\ Count(calls', "uvc_stream_set_frame_rate") = 1
                /\ Precedes(calls', "uvc_stream_set_format",
                            "uvc_stream_set_frame_rate")
                /\ Len(args'.set_format) = 1
                /\ args'.set_format[1].width = frame.width
                /\ args'.set_format[1].height = frame.height
                /\ args'.set_format[1].pixelformat = format.fcc
                /\ Len(args'.set_frame_rate) = 1
       /\ (event'.type = UVC_EVENT_DATA /\ control = UVC_VS_PROBE_CONTROL) =>
            /\ calls' = <<>>
            /\ args' = NoArgs
            /\ commit' = commit
            /\ <<fcc', width', height'>> = <<fcc, width, height>>]_vars

C14_Witness ==
    /\ event.type = UVC_EVENT_DATA
    /\ control = UVC_VS_COMMIT_CONTROL
    /\ Triple(commit) # Triple(probe)
    /\ Len(args.set_format) = 1
    /\ args.set_format[1].width = 1280
    /\ args.set_format[1].pixelformat = V4L2_PIX_FMT_YUYV
    /\ Len(args.set_frame_rate) = 1

\* 2 * p as a 32-bit value, for p in 0 .. 2^31 - 1: the pattern of 2 * p
\* modulo 2^32
Twice32(p) ==
    IF p < 1073741824 THEN 2 * p ELSE 2 * (p - 1073741824) - 2147483647 - 1

\* C15: every block the fill produces for a frame w x h of a YUYV or an
\* MJPEG format has dwMaxVideoFrameSize = w * h * 2 as a 32-bit value; this
\* holds for the probe and for the commit block.
C15_FrameSizeIsWH2 ==
    \A t \in {"probe", "commit"} :
        fillargs[t] >= 1 =>
        LET blk == IF t = "probe" THEN probe ELSE commit
            format == fc.formats[blk.bFormatIndex]
            frame == format.frames[blk.bFrameIndex]
        IN  format.fcc \in {V4L2_PIX_FMT_YUYV, V4L2_PIX_FMT_MJPEG} =>
                blk.dwMaxVideoFrameSize = Twice32(frame.width * frame.height)

C15_Witness ==
    /\ fillargs.commit >= 1
    /\ fc = ConfigListed
    /\ fc.formats[commit.bFormatIndex].fcc = V4L2_PIX_FMT_MJPEG
    /\ commit.bFrameIndex = 2
    /\ commit.dwMaxVideoFrameSize = 4147200

\* a class request to the control interface
ToControl(r) ==
    /\ IsClassInterface(r.bRequestType)
    /\ r.wIndex % 256 = fc.control_intf

\* C16 (as claimed): the response to a class request to the control
\* interface, whatever its 16-bit wLength, has first byte 0x03 and length
\* wLength.
C16_ControlStubEchoesLength ==
    (event.type = UVC_EVENT_SETUP /\ ToControl(event.req)) =>
        /\ sent
        /\ resp.data[1] = 3
        /\ resp.length = event.req.wLength

\* a SETUP request that is not accepted: not a class request, a class request
\* not addressed to an interface or addressed to an interface that is neither
\* the control nor the streaming one, or a request to the streaming interface
\* whose selector is neither PROBE nor COMMIT
NotAccepted(r) ==
    \/ (r.bRequestType \div 32) % 4 # 1
    \/ r.bRequestType % 32 # 1
    \/ r.wIndex % 256 \notin {fc.control_intf, fc.streaming_intf}
    \/ /\ r.wIndex % 256 = fc.streaming_intf
       /\ r.wIndex % 256 # fc.control_intf
       /\ r.wValue \div 256 \notin {UVC_VS_PROBE_CONTROL, UVC_VS_COMMIT_CONTROL}

\* C17: the step that processes a SETUP request that is not accepted leaves
\* the probe block, the commit block, the recorded format and the stream as
\* they were, makes no call on the stream, ends with no control pending and
\* leaves the response buffer at the sentinel length with no byte written.
C17_UnacceptedSetupIgnored ==
    [][(event'.type = UVC_EVENT_SETUP /\ NotAccepted(event'.req)) =>
          /\ probe' = probe
          /\ commit' = commit
          /\ stream' = stream
          /\ src' = src
          /\ <<fcc', width', height'>> = <<fcc, width, height>>
          /\ calls' = <<>>
          /\ control' = 0
          /\ resp' = SentinelResp
          /\ resp'.length = -EL2HLT]_vars

C17_Witness ==
    /\ event.type = UVC_EVENT_SETUP
    /\ event.req.bRequest = UVC_SET_CUR
    /\ IsClassInterface(event.req.bRequestType)
    /\ event.req.wIndex % 256 = fc.streaming_intf
    /\ event.req.wValue \div 256 = 3
    /\ control = 0
    /\ resp.length = -EL2HLT
    /\ stream.state = "Streaming"

\* the selector of a request
Selector(r) == r.wValue \div 256

\* the block a selector names
BlockOf(cs) == IF cs = UVC_VS_PROBE_CONTROL THEN probe ELSE commit

\* C18: GET_CUR with selector S is answered with 34 bytes equal to the S
\* block; the blocks change in data phases only, so a GET_CUR(S) after a
\* SET_CUR(S) and its data phase returns exactly the block that data phase
\* stored; a PROBE data phase leaves the commit block, and so the answer to
\* GET_CUR(COMMIT), as it was.
C18_GetCurReturnsStored ==
    /\ []((event.type = UVC_EVENT_SETUP /\ ToStreaming(event.req)
              /\ event.req.bRequest = UVC_GET_CUR) =>
            /\ sent
            /\ resp.length = CtrlSize
            /\ CtrlOfBytes(resp.data) = BlockOf(Selector(event.req))
            /\ SubSeq(resp.data, CtrlSize + 1, DataSize) =
                    SubSeq(ZeroData, CtrlSize + 1, DataSize))
    /\ [][((event'.type = UVC_EVENT_DATA /\ control = UVC_VS_PROBE_CONTROL) =>
                commit' = commit)
          /\ (event'.type # UVC_EVENT_DATA =>
                (probe' = probe /\ commit' = commit))]_vars

C18_Witness ==
    /\ event.type = UVC_EVENT_SETUP
    /\ ToStreaming(event.req)
    /\ event.req.bRequest = UVC_GET_CUR
    /\ Selector(event.req) = UVC_VS_COMMIT_CONTROL
    /\ Triple(probe) = <<1, 2, 333333>>
    /\ Triple(CtrlOfBytes(resp.data)) = <<1, 1, 166666>>
    /\ commit = CtrlOfBytes(resp.data)

\* C19 (as claimed): the step that processes a COMMIT data phase selecting a
\* format the source rejects (any FourCC other than YUYV) leaves the source's
\* and the device's recorded width, height and pixel format as they were and
\* applies no frame rate.
C19_RejectedCommitKeepsFormat ==
    [][(/\ event'.type = UVC_EVENT_DATA
        /\ control = UVC_VS_COMMIT_CONTROL
        /\ fc.formats[commit'.bFormatIndex].fcc # V4L2_PIX_FMT_YUYV) =>
          /\ src' = src
          /\ <<fcc', width', height'>> = <<fcc, width, height>>
          /\ StreamFormat(stream') = StreamFormat(stream)
          /\ Count(calls', "uvc_stream_set_frame_rate") = 0
          /\ args'.set_frame_rate = <<>>]_vars

\* q ends with the sequence tail
EndsWith(q, tail) ==
    /\ Len(q) >= Len(tail)
    /\ SubSeq(q, Len(q) - Len(tail) + 1, Len(q)) = tail

\* main was given no option that ends it, and this constructor is the first
\* to fail
ParseFailed == main.opt = "none" /\ ~main.fc
SourceFailed == main.opt = "none" /\ main.fc /\ ~main.src
StreamFailed == main.opt = "none" /\ main.fc /\ main.src /\ ~main.stream
NoFailure == main.opt = "none" /\ main.fc /\ main.src /\ main.stream

\* C20 (as claimed): when the configuration cannot be parsed, the video
\* source cannot be created or the stream cannot be constructed, main runs
\* the shutdown sequence and then exits with code 1, without having entered
\* the reactor loop; an exit without error returns 0.
C20_StartupErrorRunsShutdown ==
    main.exited =>
        /\ (ParseFailed \/ SourceFailed \/ StreamFailed) =>
              /\ main.ret = 1
              /\ EndsWith(main.trace, Cleanup)
              /\ "events_loop" \notin Range(main.trace)
        /\ (NoFailure \/ main.opt = "h") => main.ret = 0

\* C20 (amended): when the video source cannot be created or the stream
\* cannot be constructed, main runs the shutdown sequence and then exits
\* with code 1; when the configuration cannot be parsed it exits with code 1
\* at once, with no cleanup call; in neither case was the reactor loop
\* entered; an exit without error returns 0, after the shutdown sequence
\* when the loop was run.
C20_Amended ==
    main.exited =>
        /\ (SourceFailed \/ StreamFailed) =>
              /\ main.ret = 1
              /\ EndsWith(main.trace, Cleanup)
              /\ "events_loop" \notin Range(main.trace)
        /\ ParseFailed =>
              /\ main.ret = 1
              /\ main.trace = <<"configfs_parse_uvc_function">>
        /\ NoFailure =>
              /\ main.ret = 0
              /\ EndsWith(main.trace, <<"events_loop">> \o Cleanup)
        /\ main.opt = "h" => (main.ret = 0 /\ main.trace = <<>>)

C20_Witness ==
    /\ main.exited
    /\ SourceFailed
    /\ main.ret = 1
    /\ main.trace = <<"configfs_parse_uvc_function", "events_init",
                      "test_video_source_create">> \o Cleanup

\* the colour of the pixel pair that starts at (row, x) in the buffer
Pixel(row, x) == buf.mem[row * (src.width * 2) + x * 2]

\* C21: a fill at frame counter n writes, for every pixel pair at (row, x),
\* WHITE iff row/32 + ((x + n mod 64) mod W)/32 is even and GRAY otherwise,
\* and sets bytesused to W*H*2; so pixel (0,0) is WHITE at n = 0 and GRAY at
\* n = 32, and the frame is the one produced at n + 64; each fill advances
\* the counter, and with it the offset, by exactly one.
C21_Checkerboard ==
    /\ [](buf # NoBuffer =>
            LET n == frame_count - 1
                offset == n % 64
                W == src.width
                H == src.height
            IN  /\ \A row \in 0..(H - 1) :
                       \A x \in {k \in 0..(W - 1) : k % 2 = 0} :
                          Pixel(row, x) =
                              IF (row \div 32 + ((x + offset) % W) \div 32) % 2 = 0
                              THEN WHITE ELSE GRAY
                /\ buf.bytesused = W * H * 2
                /\ n = 0 => Pixel(0, 0) = WHITE
                /\ n = 32 => Pixel(0, 0) = GRAY
                /\ buf = test_source_fill_buffer(src, n + 64))
    /\ [][buf' # buf => frame_count' = NextCount(frame_count)]_vars

C21_Witness ==
    /\ frame_count = 33
    /\ src.width = 96
    /\ Pixel(0, 0) = GRAY
    /\ Pixel(0, 64) = WHITE
    /\ buf.bytesused = 6336

\* C22 (as claimed): UVCIOC_SEND_RESPONSE is never issued for a CONNECT,
\* DISCONNECT, DATA, STREAMON or STREAMOFF event, and for a SETUP event it is
\* issued only when the response length is no longer the sentinel.
C22_SendOnlyWhenPopulated ==
    /\ event.type \in {UVC_EVENT_CONNECT, UVC_EVENT_DISCONNECT, UVC_EVENT_DATA,
                       UVC_EVENT_STREAMON, UVC_EVENT_STREAMOFF} => ~sent
    /\ (event.type = UVC_EVENT_SETUP /\ sent) => resp.length # -EL2HLT

\* C22 (amended): UVCIOC_SEND_RESPONSE is never issued for a CONNECT,
\* DISCONNECT, DATA, STREAMON or STREAMOFF event; it is issued for every
\* SETUP event, and the response it passes still has the sentinel length
\* exactly when the request was not accepted.
C22_Amended ==
    /\ event.type \in {UVC_EVENT_CONNECT, UVC_EVENT_DISCONNECT, UVC_EVENT_DATA,
                       UVC_EVENT_STREAMON, UVC_EVENT_STREAMOFF} => ~sent
    /\ event.type = UVC_EVENT_SETUP =>
          /\ sent
          /\ (resp.length = -EL2HLT) <=> NotAccepted(event.req)

C22_Witness ==
    /\ event.type = UVC_EVENT_SETUP
    /\ BitAnd(event.req.bRequestType, USB_TYPE_MASK) = USB_TYPE_STANDARD
    /\ sent
    /\ resp = SentinelResp

\* a SET_CUR on PROBE or COMMIT and a data phase are pending, in that order,
\* and the handler is being invoked
SetCurAndDataPending ==
    /\ event = NoEvent
    /\ event' \notin {NoEvent, DqFailed}
    /\ Len(pending) = 2
    /\ pending[1].type = UVC_EVENT_SETUP
    /\ StreamingSetCur(pending[1].req)
    /\ pending[2].type = UVC_EVENT_DATA

\* C23 (as claimed): an invocation of the handler that finds a SET_CUR and
\* its data phase pending processes both, in that order: the queue is empty
\* afterwards and the block the SET_CUR names holds the filled values.
C23_InvocationDrainsQueue ==
    [][SetCurAndDataPending =>
          /\ pending' = <<>>
          /\ Triple(IF Selector(pending[1].req) = UVC_VS_PROBE_CONTROL
                    THEN probe' ELSE commit') =
                Triple(uvc_fill_streaming_control(fc, ZeroCtrl,
                          CtrlOfBytes(pending[2].data.data).bFormatIndex,
                          CtrlOfBytes(pending[2].data.data).bFrameIndex,
                          CtrlOfBytes(pending[2].data.data).dwFrameInterval))]_vars

\* C23 (amended): an invocation of the handler dequeues and processes exactly
\* one event, the oldest one pending; with a SET_CUR and its data phase
\* pending it processes the SET_CUR only, leaving the blocks as they were and
\* the data phase at the head of the queue for the next invocation.
C23_Amended ==
    [][/\ (event = NoEvent /\ event' \notin {NoEvent, DqFailed}
               /\ pending # <<>>) =>
            /\ event' = Head(pending)
            /\ pending' = Tail(pending)
       /\ SetCurAndDataPending =>
            /\ pending' = <<pending[2]>>
            /\ control' = Selector(pending[1].req)
            /\ probe' = probe
            /\ commit' = commit]_vars

C23_Witness ==
    /\ StreamingSetCur(event.req)
    /\ event.type = UVC_EVENT_SETUP
    /\ control = UVC_VS_PROBE_CONTROL
    /\ pending = <<DataEvent(1, 2, 250000)>>
    /\ Triple(probe) = <<1, 1, fc.formats[1].frames[1].intervals[1]>>

\* C24 (as claimed): after a COMMIT data phase the frame rate passed to the
\* stream is 10_000_000 / dwFrameInterval of the commit block by integer
\* division, raised to 1 if below, and so is not zero.
C24_FrameRateAtLeastOne ==
    (event.type = UVC_EVENT_DATA /\ control = UVC_VS_COMMIT_CONTROL) =>
        LET q == 10000000 \div commit.dwFrameInterval
        IN  /\ Len(args.set_frame_rate) = 1
            /\ args.set_frame_rate[1] = IF q < 1 THEN 1 ELSE q
            /\ args.set_frame_rate[1] # 0

\* C25: a data phase never selects the maximum by wrapping: a DATA block with
\* bFormatIndex 0 (bFrameIndex 0) gives index 1, not the last format (frame),
\* and an index above the count gives the count; GET_MAX, which passes -1 for
\* both, answers with the last format and its last frame.
C25_DataNeverWraps ==
    /\ (event.type = UVC_EVENT_DATA
          /\ control \in {UVC_VS_PROBE_CONTROL, UVC_VS_COMMIT_CONTROL}) =>
        LET nf == num_formats(fc)
            nr == Len(fc.formats[PendingBlock.bFormatIndex].frames)
        IN  /\ Requested.bFormatIndex = 0 => PendingBlock.bFormatIndex = 1
            /\ Requested.bFormatIndex > nf => PendingBlock.bFormatIndex = nf
            /\ Requested.bFrameIndex = 0 => PendingBlock.bFrameIndex = 1
            /\ Requested.bFrameIndex > nr => PendingBlock.bFrameIndex = nr
    /\ (event.type = UVC_EVENT_SETUP /\ ToStreaming(event.req)
          /\ event.req.bRequest = UVC_GET_MAX) =>
        LET got == CtrlOfBytes(resp.data)
        IN  /\ got.bFormatIndex = num_formats(fc)
            /\ got.bFrameIndex = Len(fc.formats[num_formats(fc)].frames)

C25_Witness ==
    /\ event.type = UVC_EVENT_DATA
    /\ control = UVC_VS_COMMIT_CONTROL
    /\ num_formats(fc) = 2
    /\ Requested.bFormatIndex = 0
    /\ Requested.bFrameIndex = 0
    /\ commit.bFormatIndex = 1
    /\ commit.bFrameIndex = 1

\* a block that is valid with respect to the configuration
ValidBlock(c) ==
    /\ c.bFormatIndex \in 1..num_formats(fc)
    /\ c.bFrameIndex \in 1..Len(fc.formats[c.bFormatIndex].frames)
    /\ c.dwFrameInterval \in
          Range(fc.formats[c.bFormatIndex].frames[c.bFrameIndex].intervals)
    /\ c.bmHint = 1
    /\ c.bmFramingInfo = 3
    /\ c.bPreferedVersion = 1
    /\ c.bMaxVersion = 1
    /\ c.dwMaxPayloadTransferSize = fc.wMaxPacketSize

\* C26: in every state reachable after initialisation, whatever events were
\* processed, the probe block and the commit block are valid with respect to
\* the configuration.
C26_BlocksAlwaysValid == ValidBlock(probe) /\ ValidBlock(commit)

C26_Witness ==
    /\ event.type = UVC_EVENT_DATA
    /\ Requested.dwFrameInterval = UINT_MAX
    /\ Requested.bFormatIndex = 3
    /\ Triple(commit) = <<2, 2, 500000>>
    /\ Triple(probe) = <<1, 1, 50000000>>
    /\ ValidBlock(probe)
    /\ ValidBlock(commit)

\* the state the control machine keeps between invocations
DeviceState == <<control, probe, commit, stream, fcc, width, height>>

\* C27: an invocation whose VIDIOC_DQEVENT fails changes neither
\* pending_control, nor the probe and commit blocks, nor the stream state,
\* nor the queue, and sends no response; the only thing the handler then does
\* is return, with the device as it was, ready for the next invocation.
C27_DqFailureHasNoEffect ==
    [][ /\ (event' = DqFailed /\ event = NoEvent) =>
              (/\ DeviceState' = DeviceState
               /\ pending' = pending
               /\ sent' = FALSE
               /\ calls' = <<>>
               /\ resp' = resp)
        /\ (event = DqFailed) =>
              (event' \in {DqFailed, NoEvent} /\ DeviceState' = DeviceState) ]_vars

C27_Witness ==
    /\ event = DqFailed
    /\ control = UVC_VS_COMMIT_CONTROL
    /\ Triple(probe) # Triple(commit)
    /\ pending # <<>>
    /\ sent = FALSE

====
